---- MODULE Spec2Model ----
(***************************************************************************)
(* The Royal Game of Ur rules engine: Board (board.py) and Game (game.py). *)
(* Squares are <<row, col>>, pieces are <<player, piece_id>>, Python's     *)
(* None is the empty tuple.  Python indexes paths from 0; TLA+ sequences   *)
(* start at 1, so path[i] of the code is PathAt(path, i) here.             *)
(***************************************************************************)
EXTENDS Integers, Sequences, FiniteSets, TLC

\* Pieces created per player.  board.py:43-44 creates range(1, 8), seven
\* pieces; the model is checked with a smaller pool.
NumPieces == 2

\* Calls made on one Game object while the game is in progress: roll_dice,
\* make_move (accepted or rejected) and next_turn count alike.  Calls made
\* once the game is over are not limited.
MaxCalls == 8

\* Largest step count handed to is_valid_move and move_piece when they are
\* examined as functions of the board (the dice give 0..4; 8 steps take a
\* piece in hand to the middle rosette).
MaxSteps == 8

None == <<>>

\* The values a call returns carry their Python type, so that an int, a bool
\* and None can be told apart by comparing them
IntValue(n) == <<"int", n>>
BoolValue(v) == <<"bool", v>>

\* Player.ONE = 1, Player.TWO = 2
PlayerONE == 1
PlayerTWO == 2
Players == {PlayerONE, PlayerTWO}

\* Optional[Player] = None for Game.winner
NoPlayer == 0

\* Board.pieces: Piece(player, i) for i in 1..NumPieces
Pieces == Players \X (1..NumPieces)
PiecesOf(player) == {p \in Pieces : p[1] = player}
PlayerOf(piece) == piece[1]

\* Board._initialize_board: the sections and the rosettes
p1_start == {<<2, i>> : i \in 0..3}
p2_start == {<<0, i>> : i \in 0..3}
shared_path == {<<1, i>> : i \in 0..7}
p1_end == {<<2, 6>>, <<2, 7>>}
p2_end == {<<0, 6>>, <<0, 7>>}
\* rosette_squares with the other square of each end row
rosette_squares_OtherEnd == {<<2, 0>>, <<0, 0>>, <<1, 3>>, <<2, 7>>, <<0, 7>>}

rosette_squares == {<<2, 0>>, <<0, 0>>, <<1, 3>>, <<2, 6>>, <<0, 6>>}

\* The keys of Board.squares
SquarePositions == p1_start \cup p2_start \cup shared_path \cup p1_end \cup p2_end

\* The immutable flags of each Square, as _initialize_board sets them
SquareFlags ==
    [pos \in SquarePositions |->
        IF pos \in p1_start \cup p2_start
        THEN [is_rosette |-> pos \in rosette_squares, is_shared |-> FALSE]
        ELSE IF pos \in shared_path
        THEN [is_rosette |-> pos \in rosette_squares, is_shared |-> TRUE]
        ELSE [is_rosette |-> pos \in rosette_squares, is_shared |-> FALSE]]

\* get_player_path with the two end rows exchanged
GetPlayerPath_SwappedEnds(player) ==
    IF player = PlayerONE
    THEN << <<2, 3>>, <<2, 2>>, <<2, 1>>, <<2, 0>>,
            <<1, 0>>, <<1, 1>>, <<1, 2>>, <<1, 3>>,
            <<1, 4>>, <<1, 5>>, <<1, 6>>, <<1, 7>>,
            <<0, 7>>, <<0, 6>> >>
    ELSE << <<0, 3>>, <<0, 2>>, <<0, 1>>, <<0, 0>>,
            <<1, 0>>, <<1, 1>>, <<1, 2>>, <<1, 3>>,
            <<1, 4>>, <<1, 5>>, <<1, 6>>, <<1, 7>>,
            <<2, 7>>, <<2, 6>> >>

\* get_player_path on which player two crosses the middle row from the other
\* end
GetPlayerPath_OpposedShared(player) ==
    IF player = PlayerONE
    THEN << <<2, 3>>, <<2, 2>>, <<2, 1>>, <<2, 0>>,
            <<1, 0>>, <<1, 1>>, <<1, 2>>, <<1, 3>>,
            <<1, 4>>, <<1, 5>>, <<1, 6>>, <<1, 7>>,
            <<2, 7>>, <<2, 6>> >>
    ELSE << <<0, 3>>, <<0, 2>>, <<0, 1>>, <<0, 0>>,
            <<1, 7>>, <<1, 6>>, <<1, 5>>, <<1, 4>>,
            <<1, 3>>, <<1, 2>>, <<1, 1>>, <<1, 0>>,
            <<0, 7>>, <<0, 6>> >>

\* Board.get_player_path
GetPlayerPath(player) ==
    IF player = PlayerONE
    THEN << <<2, 3>>, <<2, 2>>, <<2, 1>>, <<2, 0>>,
            <<1, 0>>, <<1, 1>>, <<1, 2>>, <<1, 3>>,
            <<1, 4>>, <<1, 5>>, <<1, 6>>, <<1, 7>>,
            <<2, 7>>, <<2, 6>> >>
    ELSE << <<0, 3>>, <<0, 2>>, <<0, 1>>, <<0, 0>>,
            <<1, 0>>, <<1, 1>>, <<1, 2>>, <<1, 3>>,
            <<1, 4>>, <<1, 5>>, <<1, 6>>, <<1, 7>>,
            <<0, 7>>, <<0, 6>> >>

\* path[i], 0-based as in the code
PathAt(path, i) == path[i + 1]

\* list.index: the 0-based index of the first occurrence, found by a scan
\* from the front (the code calls it only for a square that is on the path)
RECURSIVE IndexFrom(_, _, _)
IndexFrom(path, pos, i) ==
    IF PathAt(path, i) = pos THEN i ELSE IndexFrom(path, pos, i + 1)
PathIndex(path, pos) == IndexFrom(path, pos, 0)

VARIABLES
    squares,          \* Board.squares[pos].piece
    position,         \* Piece.position
    completed,        \* Piece.completed
    pieces_in_hand,   \* Board.pieces_in_hand
    current_player,   \* Game.current_player
    dice_result,      \* Game.dice_result
    game_over,        \* Game.game_over
    winner,           \* Game.winner
    call,             \* the last call made on the Game and how it ended
    calls             \* how many calls have been made while in progress

boardVars == <<squares, position, completed, pieces_in_hand>>
gameVars == <<current_player, dice_result, game_over, winner>>
vars == <<squares, position, completed, pieces_in_hand,
          current_player, dice_result, game_over, winner, call, calls>>

\* The Board object as one value
BoardNow ==
    [squares |-> squares, position |-> position,
     completed |-> completed, pieces_in_hand |-> pieces_in_hand]

\* Board.__init__
BoardInit ==
    [squares |-> [pos \in SquarePositions |-> None],
     position |-> [p \in Pieces |-> None],
     completed |-> [p \in Pieces |-> FALSE],
     pieces_in_hand |-> [pl \in Players |-> PiecesOf(pl)]]

\* TargetFree with the rosette test of the middle row left out
TargetFree_NoRosetteCheck(b, piece, target_pos) ==
    LET occupant == b.squares[target_pos] IN
    IF occupant # None
    THEN IF target_pos[1] = 1
         THEN PlayerOf(occupant) # PlayerOf(piece)
         ELSE FALSE
    ELSE TRUE

\* TargetFree with the owner test of the middle row left out
TargetFree_OwnCapture(b, piece, target_pos) ==
    LET occupant == b.squares[target_pos] IN
    IF occupant # None
    THEN IF target_pos[1] = 1
         THEN ~SquareFlags[target_pos].is_rosette
         ELSE FALSE
    ELSE TRUE

\* The occupancy rule that lets a piece land on any occupied square
TargetFree_AnyOccupant(b, piece, target_pos) == TRUE

\* Board.is_valid_move, the branch shared by both target computations:
\* the occupancy rule at the target square
TargetFree(b, piece, target_pos) ==
    LET occupant == b.squares[target_pos] IN
    IF occupant # None
    THEN IF target_pos[1] = 1
         THEN PlayerOf(occupant) # PlayerOf(piece)
              /\ ~SquareFlags[target_pos].is_rosette
         ELSE FALSE
    ELSE TRUE

\* is_valid_move that rejects the exact landing on the +1 point space
IsValidMove_ExactScoreRejected(b, piece, steps) ==
    IF b.completed[piece] THEN FALSE
    ELSE
    LET path == GetPlayerPath(PlayerOf(piece)) IN
    IF piece \in b.pieces_in_hand[PlayerOf(piece)]
    THEN IF steps = 0 THEN FALSE
         ELSE TargetFree(b, piece, PathAt(path, steps - 1))
    ELSE
    LET current_index == PathIndex(path, b.position[piece])
        new_index == current_index + steps
        scoring_index == Len(path)
    IN  IF new_index >= scoring_index THEN FALSE
        ELSE TargetFree(b, piece, PathAt(path, new_index))

\* is_valid_move without the steps == 0 test for a piece in hand: the target
\* is then path[-1], the last square of the path
IsValidMove_NoZeroCheck(b, piece, steps) ==
    IF b.completed[piece] THEN FALSE
    ELSE
    LET path == GetPlayerPath(PlayerOf(piece)) IN
    IF piece \in b.pieces_in_hand[PlayerOf(piece)]
    THEN IF steps = 0 THEN TargetFree(b, piece, PathAt(path, Len(path) - 1))
         ELSE TargetFree(b, piece, PathAt(path, steps - 1))
    ELSE
    LET current_index == PathIndex(path, b.position[piece])
        new_index == current_index + steps
        scoring_index == Len(path)
    IN  IF new_index > scoring_index THEN FALSE
        ELSE IF new_index = scoring_index THEN TRUE
        ELSE TargetFree(b, piece, PathAt(path, new_index))

\* Board.is_valid_move
IsValidMove(b, piece, steps) ==
    IF b.completed[piece] THEN FALSE
    ELSE
    LET path == GetPlayerPath(PlayerOf(piece)) IN
    IF piece \in b.pieces_in_hand[PlayerOf(piece)]
    THEN IF steps = 0 THEN FALSE
         ELSE TargetFree(b, piece, PathAt(path, steps - 1))
    ELSE
    LET current_index == PathIndex(path, b.position[piece])
        new_index == current_index + steps
        scoring_index == Len(path)
    IN  IF new_index > scoring_index THEN FALSE
        ELSE IF new_index = scoring_index THEN TRUE
        ELSE TargetFree(b, piece, PathAt(path, new_index))

\* A list subscript path[i]: IndexError when i is outside -len..len-1
ListIndexRaises(path, i) == i >= Len(path) \/ i < 0 - Len(path)

\* A call of Board.is_valid_move: the exception it raises, or the value it
\* returns. The subscript of line 146 is the only one not guarded by a
\* comparison with len(path).
IsValidMoveCall(b, piece, steps) ==
    IF /\ ~b.completed[piece]
       /\ piece \in b.pieces_in_hand[PlayerOf(piece)]
       /\ steps # 0
       /\ ListIndexRaises(GetPlayerPath(PlayerOf(piece)), steps - 1)
    THEN [raised |-> "IndexError", returned |-> None]
    ELSE [raised |-> "", returned |-> BoolValue(IsValidMove(b, piece, steps))]

\* RemoveFromCurrent with the removal from the hand forgotten
RemoveFromCurrent_KeepsHand(b, piece) ==
    IF b.position[piece] # None
    THEN [b EXCEPT !.squares[b.position[piece]] = None]
    ELSE b

\* RemoveFromCurrent with the source square left occupied
RemoveFromCurrent_KeepsSquare(b, piece) ==
    IF b.position[piece] # None
    THEN b
    ELSE [b EXCEPT !.pieces_in_hand[PlayerOf(piece)] = @ \ {piece}]

\* Board.move_piece, lines 196-200: take the piece off its square, or out
\* of the hand when it has no position
RemoveFromCurrent(b, piece) ==
    IF b.position[piece] # None
    THEN [b EXCEPT !.squares[b.position[piece]] = None]
    ELSE [b EXCEPT !.pieces_in_hand[PlayerOf(piece)] = @ \ {piece}]

\* ScorePiece that sends the piece back to its owner's hand instead of
\* marking it completed
ScorePiece_BackToHand(b, piece) ==
    [b EXCEPT !.position[piece] = None,
              !.pieces_in_hand[PlayerOf(piece)] = @ \cup {piece}]

\* ScorePiece that marks the piece completed and leaves it its position
ScorePiece_KeepsPosition(b, piece) ==
    [b EXCEPT !.completed[piece] = TRUE]

\* Board.move_piece, lines 207-210: the piece reaches the +1 point space
ScorePiece(b, piece) ==
    [b EXCEPT !.completed[piece] = TRUE, !.position[piece] = None]

\* CapturePiece that unsets the position and forgets the hand
CapturePiece_NoHand(b, new_pos) ==
    LET captured_piece == b.squares[new_pos] IN
    IF captured_piece # None
    THEN [b EXCEPT !.position[captured_piece] = None]
    ELSE b

\* Board.move_piece, lines 215-219: send the occupant of new_pos, if any,
\* back to its owner's hand
CapturePiece(b, new_pos) ==
    LET captured_piece == b.squares[new_pos] IN
    IF captured_piece # None
    THEN [b EXCEPT !.position[captured_piece] = None,
                   !.pieces_in_hand[PlayerOf(captured_piece)] =
                        @ \cup {captured_piece}]
    ELSE b

\* Board.move_piece, lines 221-223: put the piece on new_pos
PlacePiece(b, piece, new_pos) ==
    [b EXCEPT !.squares[new_pos] = piece, !.position[piece] = new_pos]

\* move_piece that takes the piece off its place before it validates
MovePiece_LateCheck(b, piece, steps) ==
    IF ~IsValidMove(b, piece, steps)
    THEN [board |-> RemoveFromCurrent(b, piece), returned |-> FALSE,
          captured |-> None]
    ELSE
    LET path == GetPlayerPath(PlayerOf(piece))
        old_pos == b.position[piece]
        b1 == RemoveFromCurrent(b, piece)
        current_index == IF old_pos = None THEN -1 ELSE PathIndex(path, old_pos)
        new_index == current_index + steps
    IN  IF new_index = Len(path)
        THEN [board |-> ScorePiece(b1, piece),
              returned |-> FALSE, captured |-> None]
        ELSE
        LET new_pos == PathAt(path, new_index)
            b2 == CapturePiece(b1, new_pos)
            b3 == PlacePiece(b2, piece, new_pos)
        IN  [board |-> b3, returned |-> SquareFlags[new_pos].is_rosette,
             captured |-> b1.squares[new_pos]]

\* move_piece that reports the rosette flag of the square left when the
\* piece scores
MovePiece_ScoreBonus(b, piece, steps) ==
    IF ~IsValidMove(b, piece, steps)
    THEN [board |-> b, returned |-> FALSE, captured |-> None]
    ELSE
    LET path == GetPlayerPath(PlayerOf(piece))
        old_pos == b.position[piece]
        b1 == RemoveFromCurrent(b, piece)
        current_index == IF old_pos = None THEN -1 ELSE PathIndex(path, old_pos)
        new_index == current_index + steps
    IN  IF new_index = Len(path)
        THEN [board |-> ScorePiece(b1, piece),
              returned |-> SquareFlags[old_pos].is_rosette, captured |-> None]
        ELSE
        LET new_pos == PathAt(path, new_index)
            b2 == CapturePiece(b1, new_pos)
            b3 == PlacePiece(b2, piece, new_pos)
        IN  [board |-> b3, returned |-> SquareFlags[new_pos].is_rosette,
             captured |-> b1.squares[new_pos]]

\* move_piece that also grants the bonus for a rosette the piece left
MovePiece_SourceRosette(b, piece, steps) ==
    IF ~IsValidMove(b, piece, steps)
    THEN [board |-> b, returned |-> FALSE, captured |-> None]
    ELSE
    LET path == GetPlayerPath(PlayerOf(piece))
        old_pos == b.position[piece]
        b1 == RemoveFromCurrent(b, piece)
        current_index == IF old_pos = None THEN -1 ELSE PathIndex(path, old_pos)
        new_index == current_index + steps
    IN  IF new_index = Len(path)
        THEN [board |-> ScorePiece(b1, piece),
              returned |-> FALSE, captured |-> None]
        ELSE
        LET new_pos == PathAt(path, new_index)
            b2 == CapturePiece(b1, new_pos)
            b3 == PlacePiece(b2, piece, new_pos)
        IN  [board |-> b3,
             returned |-> \/ SquareFlags[new_pos].is_rosette
                          \/ (old_pos # None /\ SquareFlags[old_pos].is_rosette),
             captured |-> b1.squares[new_pos]]

\* move_piece that counts a piece in hand as standing on index 0
MovePiece_HandAtZero(b, piece, steps) ==
    IF ~IsValidMove(b, piece, steps)
    THEN [board |-> b, returned |-> FALSE, captured |-> None]
    ELSE
    LET path == GetPlayerPath(PlayerOf(piece))
        old_pos == b.position[piece]
        b1 == RemoveFromCurrent(b, piece)
        current_index == IF old_pos = None THEN 0 ELSE PathIndex(path, old_pos)
        new_index == current_index + steps
    IN  IF new_index = Len(path)
        THEN [board |-> ScorePiece(b1, piece),
              returned |-> FALSE, captured |-> None]
        ELSE
        LET new_pos == PathAt(path, new_index)
            b2 == CapturePiece(b1, new_pos)
            b3 == PlacePiece(b2, piece, new_pos)
        IN  [board |-> b3, returned |-> SquareFlags[new_pos].is_rosette,
             captured |-> b1.squares[new_pos]]

\* Board.move_piece: the board afterwards, the value returned, and the
\* piece it sent back to hand (captured_piece in the code), if any
MovePiece(b, piece, steps) ==
    IF ~IsValidMove(b, piece, steps)
    THEN [board |-> b, returned |-> FALSE, captured |-> None]
    ELSE
    LET path == GetPlayerPath(PlayerOf(piece))
        old_pos == b.position[piece]
        b1 == RemoveFromCurrent(b, piece)
        current_index == IF old_pos = None THEN -1 ELSE PathIndex(path, old_pos)
        new_index == current_index + steps
    IN  IF new_index = Len(path)
        THEN [board |-> ScorePiece(b1, piece),
              returned |-> FALSE, captured |-> None]
        ELSE
        LET new_pos == PathAt(path, new_index)
            b2 == CapturePiece(b1, new_pos)
            b3 == PlacePiece(b2, piece, new_pos)
        IN  [board |-> b3, returned |-> SquareFlags[new_pos].is_rosette,
             captured |-> b1.squares[new_pos]]

\* get_valid_moves that looks at the pieces on the board only
GetValidMoves_BoardOnly(b, player, dice) ==
    IF dice = 0 THEN {}
    ELSE {piece \in PiecesOf(player) :
             /\ ~b.completed[piece]
             /\ piece \notin b.pieces_in_hand[player]
             /\ IsValidMove(b, piece, dice)}

\* get_valid_moves that looks at the pieces in hand only
GetValidMoves_HandOnly(b, player, dice) ==
    IF dice = 0 THEN {}
    ELSE {piece \in b.pieces_in_hand[player] : IsValidMove(b, piece, dice)}

\* Game.get_valid_moves
GetValidMoves(b, player, dice) ==
    IF dice = 0 THEN {}
    ELSE {piece \in b.pieces_in_hand[player] : IsValidMove(b, piece, dice)}
         \cup {piece \in PiecesOf(player) :
                  /\ ~b.completed[piece]
                  /\ piece \notin b.pieces_in_hand[player]
                  /\ IsValidMove(b, piece, dice)}

\* _check_victory with any() in place of all()
CheckVictory_Any(b, player) == \E piece \in PiecesOf(player) : b.completed[piece]

\* Game._check_victory
CheckVictory(b, player) == \A piece \in PiecesOf(player) : b.completed[piece]

\* Game.__init__ with player two to move first
Init_PlayerTwoFirst ==
    /\ squares = BoardInit.squares
    /\ position = BoardInit.position
    /\ completed = BoardInit.completed
    /\ pieces_in_hand = BoardInit.pieces_in_hand
    /\ current_player = PlayerTWO
    /\ dice_result = 0
    /\ game_over = FALSE
    /\ winner = NoPlayer
    /\ call = [op |-> "new_game", piece |-> None, raised |-> "", returned |-> None,
               captured |-> None]
    /\ calls = 0

\* Game.__init__
Init ==
    /\ squares = BoardInit.squares
    /\ position = BoardInit.position
    /\ completed = BoardInit.completed
    /\ pieces_in_hand = BoardInit.pieces_in_hand
    /\ current_player = PlayerONE
    /\ dice_result = 0
    /\ game_over = FALSE
    /\ winner = NoPlayer
    /\ call = [op |-> "new_game", piece |-> None, raised |-> "", returned |-> None,
               captured |-> None]
    /\ calls = 0

\* The sums of four draws of 0, 1 or 2
DiceSums_ZeroToTwo == {d1 + d2 + d3 + d4 : d1 \in 0..2, d2 \in 0..2, d3 \in 0..2, d4 \in 0..2}

\* The sums of five draws instead of four
DiceSums_FiveDraws ==
    {d1 + d2 + d3 + d4 + d5 :
        d1 \in 0..1, d2 \in 0..1, d3 \in 0..1, d4 \in 0..1, d5 \in 0..1}

\* The values sum(random.randint(0, 1) for _ in range(4)) can take
DiceSums == {d1 + d2 + d3 + d4 : d1 \in 0..1, d2 \in 0..1, d3 \in 0..1, d4 \in 0..1}

\* Game.roll_dice
RollDice ==
    \E roll \in DiceSums :
        /\ dice_result' = roll
        /\ call' = [op |-> "roll_dice", piece |-> None, raised |-> "",
                    returned |-> IntValue(roll), captured |-> None]
        /\ UNCHANGED <<boardVars, current_player, game_over, winner>>

\* make_move with its two checks in the other order
MakeMove_ChecksSwapped(piece) ==
    IF piece \notin GetValidMoves(BoardNow, current_player, dice_result)
    THEN /\ call' = [op |-> "make_move", piece |-> piece, raised |-> "Invalid move!",
                     returned |-> None, captured |-> None]
         /\ UNCHANGED <<boardVars, gameVars>>
    ELSE IF PlayerOf(piece) # current_player
    THEN /\ call' = [op |-> "make_move", piece |-> piece, raised |-> "Not your piece!",
                     returned |-> None, captured |-> None]
         /\ UNCHANGED <<boardVars, gameVars>>
    ELSE
    LET moved == MovePiece(BoardNow, piece, dice_result)
        landed_on_rosette == moved.returned
    IN  /\ squares' = moved.board.squares
        /\ position' = moved.board.position
        /\ completed' = moved.board.completed
        /\ pieces_in_hand' = moved.board.pieces_in_hand
        /\ IF CheckVictory(moved.board, current_player)
           THEN /\ game_over' = TRUE
                /\ winner' = current_player
                /\ call' = [op |-> "make_move", piece |-> piece, raised |-> "",
                            returned |-> BoolValue(FALSE), captured |-> moved.captured]
           ELSE /\ UNCHANGED <<game_over, winner>>
                /\ call' = [op |-> "make_move", piece |-> piece, raised |-> "",
                            returned |-> BoolValue(landed_on_rosette),
                            captured |-> moved.captured]
        /\ UNCHANGED <<current_player, dice_result>>

\* make_move that clears the dice once the move is made
MakeMove_ResetsDice(piece) ==
    IF PlayerOf(piece) # current_player
    THEN /\ call' = [op |-> "make_move", piece |-> piece, raised |-> "Not your piece!",
                     returned |-> None, captured |-> None]
         /\ UNCHANGED <<boardVars, gameVars>>
    ELSE IF piece \notin GetValidMoves(BoardNow, current_player, dice_result)
    THEN /\ call' = [op |-> "make_move", piece |-> piece, raised |-> "Invalid move!",
                     returned |-> None, captured |-> None]
         /\ UNCHANGED <<boardVars, gameVars>>
    ELSE
    LET moved == MovePiece(BoardNow, piece, dice_result)
        landed_on_rosette == moved.returned
    IN  /\ squares' = moved.board.squares
        /\ position' = moved.board.position
        /\ completed' = moved.board.completed
        /\ pieces_in_hand' = moved.board.pieces_in_hand
        /\ IF CheckVictory(moved.board, current_player)
           THEN /\ game_over' = TRUE
                /\ winner' = current_player
                /\ call' = [op |-> "make_move", piece |-> piece, raised |-> "",
                            returned |-> BoolValue(FALSE), captured |-> moved.captured]
           ELSE /\ UNCHANGED <<game_over, winner>>
                /\ call' = [op |-> "make_move", piece |-> piece, raised |-> "",
                            returned |-> BoolValue(landed_on_rosette),
                            captured |-> moved.captured]
        /\ dice_result' = 0
        /\ UNCHANGED current_player

\* Game.make_move
MakeMove(piece) ==
    IF PlayerOf(piece) # current_player
    THEN /\ call' = [op |-> "make_move", piece |-> piece, raised |-> "Not your piece!",
                     returned |-> None, captured |-> None]
         /\ UNCHANGED <<boardVars, gameVars>>
    ELSE IF piece \notin GetValidMoves(BoardNow, current_player, dice_result)
    THEN /\ call' = [op |-> "make_move", piece |-> piece, raised |-> "Invalid move!",
                     returned |-> None, captured |-> None]
         /\ UNCHANGED <<boardVars, gameVars>>
    ELSE
    LET moved == MovePiece(BoardNow, piece, dice_result)
        landed_on_rosette == moved.returned
    IN  /\ squares' = moved.board.squares
        /\ position' = moved.board.position
        /\ completed' = moved.board.completed
        /\ pieces_in_hand' = moved.board.pieces_in_hand
        /\ IF CheckVictory(moved.board, current_player)
           THEN /\ game_over' = TRUE
                /\ winner' = current_player
                /\ call' = [op |-> "make_move", piece |-> piece, raised |-> "",
                            returned |-> BoolValue(FALSE), captured |-> moved.captured]
           ELSE /\ UNCHANGED <<game_over, winner>>
                /\ call' = [op |-> "make_move", piece |-> piece, raised |-> "",
                            returned |-> BoolValue(landed_on_rosette),
                            captured |-> moved.captured]
        /\ UNCHANGED <<current_player, dice_result>>

\* next_turn without the game_over test
NextTurn_IgnoresGameOver ==
    /\ current_player' = IF current_player = PlayerONE THEN PlayerTWO ELSE PlayerONE
    /\ dice_result' = 0
    /\ call' = [op |-> "next_turn", piece |-> None, raised |-> "", returned |-> None,
                captured |-> None]
    /\ UNCHANGED <<boardVars, game_over, winner>>

\* next_turn that hands the turn over even when the game is over
NextTurn_FlipsAlways ==
    /\ current_player' = IF current_player = PlayerONE THEN PlayerTWO ELSE PlayerONE
    /\ dice_result' = IF game_over THEN dice_result ELSE 0
    /\ call' = [op |-> "next_turn", piece |-> None, raised |-> "", returned |-> None,
                captured |-> None]
    /\ UNCHANGED <<boardVars, game_over, winner>>

\* Game.next_turn
NextTurn ==
    /\ IF game_over
       THEN UNCHANGED <<current_player, dice_result>>
       ELSE /\ current_player' = IF current_player = PlayerONE THEN PlayerTWO ELSE PlayerONE
            /\ dice_result' = 0
    /\ call' = [op |-> "next_turn", piece |-> None, raised |-> "", returned |-> None,
                captured |-> None]
    /\ UNCHANGED <<boardVars, game_over, winner>>

\* One more call on the Game: while the game is in progress it uses up the
\* call budget
Counted ==
    IF game_over THEN UNCHANGED calls
    ELSE calls < MaxCalls /\ calls' = calls + 1

Next ==
    \/ Counted /\ RollDice
    \/ Counted /\ \E piece \in Pieces : MakeMove(piece)
    \/ Counted /\ NextTurn

Spec == Init /\ [][Next]_vars

\* A game near its end: each player has completed all of its pieces but the
\* last one, which is still in hand, and next_turn has just been called
\* (make_move with dice 4, 4, 4, 3 for each of the other pieces gets there).
EndgameInit ==
    /\ squares = [pos \in SquarePositions |-> None]
    /\ position = [p \in Pieces |-> None]
    /\ completed = [p \in Pieces |-> p[2] < NumPieces]
    /\ pieces_in_hand = [pl \in Players |-> {<<pl, NumPieces>>}]
    /\ current_player \in Players
    /\ dice_result = 0
    /\ game_over = FALSE
    /\ winner = NoPlayer
    /\ call = [op |-> "next_turn", piece |-> None, raised |-> "", returned |-> None,
               captured |-> None]
    /\ calls = 0

SpecEndgame == EndgameInit /\ [][Next]_vars

\* The Game object as a value, for the programs that make several calls on
\* it in one pass
GameNow ==
    [board |-> BoardNow, current_player |-> current_player,
     dice_result |-> dice_result, game_over |-> game_over, winner |-> winner]

\* The Game object after the pass
SetGame(g) ==
    /\ squares' = g.board.squares
    /\ position' = g.board.position
    /\ completed' = g.board.completed
    /\ pieces_in_hand' = g.board.pieces_in_hand
    /\ current_player' = g.current_player
    /\ dice_result' = g.dice_result
    /\ game_over' = g.game_over
    /\ winner' = g.winner

\* Game.roll_dice on a Game value, the draws having summed to roll
GameRollDice(g, roll) == [g EXCEPT !.dice_result = roll]

\* Game.make_move on a Game value: the Game afterwards, the message of the
\* ValueError raised ("" when none), the value returned and the piece sent
\* back to hand
GameMakeMove(g, piece) ==
    IF PlayerOf(piece) # g.current_player
    THEN [game |-> g, raised |-> "Not your piece!", returned |-> FALSE,
          captured |-> None]
    ELSE IF piece \notin GetValidMoves(g.board, g.current_player, g.dice_result)
    THEN [game |-> g, raised |-> "Invalid move!", returned |-> FALSE,
          captured |-> None]
    ELSE
    LET moved == MovePiece(g.board, piece, g.dice_result) IN
    IF CheckVictory(moved.board, g.current_player)
    THEN [game |-> [g EXCEPT !.board = moved.board, !.game_over = TRUE,
                             !.winner = g.current_player],
          raised |-> "", returned |-> FALSE, captured |-> moved.captured]
    ELSE [game |-> [g EXCEPT !.board = moved.board],
          raised |-> "", returned |-> moved.returned, captured |-> moved.captured]

\* Game.next_turn on a Game value
GameNextTurn(g) ==
    IF g.game_over THEN g
    ELSE [g EXCEPT !.current_player =
                       IF g.current_player = PlayerONE THEN PlayerTWO ELSE PlayerONE,
                   !.dice_result = 0]

\* The programs that drive a Game: the text game (test_game.main), the game
\* against the agent with and without output (run_game_with_ai, verbose or
\* not) and the HTTP API
Drivers == {"test_game", "ai_verbose", "ai_quiet", "http"}

\* What a driver did last: the request or loop pass (op), the roll it drew,
\* the piece it passed to make_move, the error it met, the value make_move
\* returned, the piece sent back to hand, whether it called next_turn, and
\* for the HTTP API the status of the answer
DriverCall(driver, op, roll, piece, raised, returned, captured, advanced, status) ==
    [driver |-> driver, op |-> op, rolled |-> roll, piece |-> piece,
     raised |-> raised, returned |-> returned, captured |-> captured,
     next_turn |-> advanced, status |-> status]

\* A driver has created its Game; the game is new, or near its end as in
\* EndgameInit, or later still with each player's last piece on the first of
\* its two final squares
DriverInit ==
    /\ \E start \in {"new", "endgame", "last_squares"} :
          LET last(pl) == <<pl, NumPieces>>
              path(pl) == GetPlayerPath(pl)
              near_end(pl) == PathAt(path(pl), Len(path(pl)) - 2)
          IN
          /\ squares = [pos \in SquarePositions |->
                           IF start = "last_squares"
                              /\ \E pl \in Players : near_end(pl) = pos
                           THEN last(CHOOSE pl \in Players : near_end(pl) = pos)
                           ELSE None]
          /\ position = [p \in Pieces |->
                            IF start = "last_squares" /\ p = last(PlayerOf(p))
                            THEN near_end(PlayerOf(p)) ELSE None]
          /\ completed = [p \in Pieces |-> start # "new" /\ p[2] < NumPieces]
          /\ pieces_in_hand =
                [pl \in Players |->
                    IF start = "new" THEN PiecesOf(pl)
                    ELSE IF start = "endgame" THEN {last(pl)}
                    ELSE {}]
          /\ current_player \in (IF start = "new" THEN {PlayerONE} ELSE Players)
    /\ dice_result = 0
    /\ game_over = FALSE
    /\ winner = NoPlayer
    /\ \E driver \in Drivers :
          call = DriverCall(driver, "new_game", None, None, "", None, None, FALSE, 0)
    /\ calls = 0

\* One pass of the loop `while not game.game_over` of test_game.main and of
\* run_game_with_ai.  The two bodies make the same calls on the Game; they
\* differ in the test that keeps the turn after make_move: `if extra_turn`
\* in test_game.main, `if extra_turn and verbose` in run_game_with_ai.
GameLoopPass(driver, op, keeps_turn_on_bonus) ==
    /\ call.driver = driver
    /\ ~game_over
    /\ calls < MaxCalls
    /\ \E roll \in DiceSums :
         LET g1 == GameRollDice(GameNow, roll)
             valid_moves == GetValidMoves(g1.board, g1.current_player, g1.dice_result)
         IN  IF roll = 0 \/ valid_moves = {}
             THEN /\ SetGame(GameNextTurn(g1))
                  /\ call' = DriverCall(driver, op, IntValue(roll), None, "", None,
                                        None, TRUE, 0)
                  /\ calls' = calls + 2
             ELSE \E selected_piece \in valid_moves :
                    LET made == GameMakeMove(g1, selected_piece)
                        extra_turn == made.returned
                    IN  IF made.raised # ""
                        THEN /\ SetGame(made.game)
                             /\ call' = DriverCall(driver, op, IntValue(roll),
                                                   selected_piece, made.raised, None,
                                                   None, FALSE, 0)
                             /\ calls' = calls + 2
                        ELSE IF extra_turn /\ keeps_turn_on_bonus
                        THEN /\ SetGame(made.game)
                             /\ call' = DriverCall(driver, op, IntValue(roll),
                                                   selected_piece, "",
                                                   BoolValue(extra_turn),
                                                   made.captured, FALSE, 0)
                             /\ calls' = calls + 2
                        ELSE /\ SetGame(GameNextTurn(made.game))
                             /\ call' = DriverCall(driver, op, IntValue(roll),
                                                   selected_piece, "",
                                                   BoolValue(extra_turn),
                                                   made.captured, TRUE, 0)
                             /\ calls' = calls + 3

\* test_game.main, one pass of its loop
TestGameMain == GameLoopPass("test_game", "main", TRUE)

\* run_game_with_ai, one pass of its loop
RunGameWithAi(verbose) ==
    GameLoopPass(IF verbose THEN "ai_verbose" ELSE "ai_quiet",
                 "run_game_with_ai", verbose)

\* An HTTP request refused with status 400 before any call on the Game
HttpRefused(op, piece, detail) ==
    /\ call' = DriverCall("http", op, None, piece, detail, None, None, FALSE, 400)
    /\ UNCHANGED <<boardVars, gameVars, calls>>

\* The roll endpoint without the test of game.game_over
HttpRollDice_NoGameOverCheck ==
    /\ call.driver = "http"
    /\ calls < MaxCalls
    /\ \E roll \in DiceSums :
         /\ SetGame(GameRollDice(GameNow, roll))
         /\ call' = DriverCall("http", "roll", IntValue(roll), None, "", None,
                               None, FALSE, 200)
    /\ calls' = calls + 1

\* POST /api/games/{game_id}/roll for a game that exists
HttpRollDice ==
    /\ call.driver = "http"
    /\ IF game_over
       THEN HttpRefused("roll", None, "Game is over")
       ELSE /\ calls < MaxCalls
            /\ \E roll \in DiceSums :
                 /\ SetGame(GameRollDice(GameNow, roll))
                 /\ call' = DriverCall("http", "roll", IntValue(roll), None, "", None,
                                       None, FALSE, 200)
            /\ calls' = calls + 1

\* POST /api/games/{game_id}/move for a game that exists, with the player
\* and piece_id of the request
HttpMakeMove(player, piece_id) ==
    /\ call.driver = "http"
    /\ IF game_over
       THEN HttpRefused("move", None, "Game is over")
       ELSE
       /\ calls < MaxCalls
       /\ IF current_player # player
          THEN HttpRefused("move", None, "Not your turn")
          ELSE IF <<player, piece_id>> \notin Pieces
          THEN HttpRefused("move", None, "Invalid piece")
          ELSE
          LET piece == <<player, piece_id>>
              made == GameMakeMove(GameNow, piece)
              extra_turn == made.returned
          IN  IF made.raised # ""
              THEN /\ call' = DriverCall("http", "move", None, piece, made.raised,
                                         None, None, FALSE, 400)
                   /\ calls' = calls + 1
                   /\ UNCHANGED <<boardVars, gameVars>>
              ELSE IF ~extra_turn
              THEN /\ SetGame(GameNextTurn(made.game))
                   /\ call' = DriverCall("http", "move", None, piece, "",
                                         BoolValue(extra_turn), made.captured,
                                         TRUE, 200)
                   /\ calls' = calls + 2
              ELSE /\ SetGame(made.game)
                   /\ call' = DriverCall("http", "move", None, piece, "",
                                         BoolValue(extra_turn), made.captured,
                                         FALSE, 200)
                   /\ calls' = calls + 1

\* The piece ids a move request may carry: those of the pieces and one that
\* no piece has
RequestPieceIds == 1..(NumPieces + 1)

DriverNext ==
    \/ TestGameMain
    \/ \E verbose \in BOOLEAN : RunGameWithAi(verbose)
    \/ HttpRollDice
    \/ \E player \in Players, piece_id \in RequestPieceIds :
          HttpMakeMove(player, piece_id)

SpecDrivers == DriverInit /\ [][DriverNext]_vars

----------------------------------------------------------------------------
\* The three places a piece can be
InHand(piece) == piece \in pieces_in_hand[PlayerOf(piece)]
OnSquare(piece) == position[piece] # None
Completed(piece) == completed[piece]
Other(player) == IF player = PlayerONE THEN PlayerTWO ELSE PlayerONE
AllCompleted(player) == \A piece \in PiecesOf(player) : Completed(piece)

\* C1: in every reachable state each piece of a player is in exactly one of
\* in-hand, on-square, completed, a hand holds only its owner's pieces, and
\* for each player the three counts add up to the size of the player's pool.
C1_Partition ==
    \A player \in Players :
        /\ pieces_in_hand[player] \subseteq PiecesOf(player)
        /\ \A piece \in PiecesOf(player) :
              \/ InHand(piece) /\ ~OnSquare(piece) /\ ~Completed(piece)
              \/ ~InHand(piece) /\ OnSquare(piece) /\ ~Completed(piece)
              \/ ~InHand(piece) /\ ~OnSquare(piece) /\ Completed(piece)
        /\ Cardinality(pieces_in_hand[player])
             + Cardinality({piece \in PiecesOf(player) : OnSquare(piece)})
             + Cardinality({piece \in PiecesOf(player) : Completed(piece)})
           = NumPieces

\* C1 witness: after a move, one player has a completed piece and a piece on
\* a square while the opponent still holds a piece in hand.
C1_Witness ==
    /\ call.op = "make_move" /\ call.raised = ""
    /\ \E player \in Players :
          /\ \E piece \in PiecesOf(player) : Completed(piece)
          /\ \E piece \in PiecesOf(player) : OnSquare(piece)
          /\ \E piece \in PiecesOf(Other(player)) : InHand(piece)

\* C2: in every reachable state a square's occupant is a piece exactly when
\* that piece's position is the square.
C2_OccupancyConsistent ==
    /\ \A pos \in SquarePositions : \A piece \in Pieces :
          squares[pos] = piece <=> position[piece] = pos
    /\ \A pos \in SquarePositions : squares[pos] \in Pieces \cup {None}
    /\ \A piece \in Pieces : position[piece] \in SquarePositions \cup {None}

\* C2 witness: a piece has moved from one square to another, and a capture
\* has put a piece back in hand.
C2_Witness ==
    /\ call.op = "make_move" /\ call.raised = ""
    /\ call.captured # None
    /\ position[call.captured] = None
    /\ squares[position[call.piece]] = call.piece

\* C3: game_over holds iff the winner is set iff the winner has completed all
\* of its pieces; never have both players completed all their pieces; and the
\* make_move that ends the game names the current player as winner and returns
\* no bonus turn.
C3_Victory ==
    /\ game_over <=> winner # NoPlayer
    /\ game_over <=> \E player \in Players : AllCompleted(player)
    /\ winner # NoPlayer => AllCompleted(winner)
    /\ ~(AllCompleted(PlayerONE) /\ AllCompleted(PlayerTWO))
    /\ (call.op = "make_move" /\ call.raised = "" /\ game_over) =>
          /\ winner = current_player
          /\ PlayerOf(call.piece) = winner
          /\ call.returned = BoolValue(FALSE)

\* C3 witness: a make_move has just completed the current player's last piece.
C3_Witness ==
    /\ call.op = "make_move" /\ call.raised = ""
    /\ game_over
    /\ Completed(call.piece)
    /\ AllCompleted(current_player)

\* The error kinds of the specification.  The code raises ValueError with
\* the messages "Not your piece!" and "Invalid move!"; it has no third kind.
NotYourPiece == "Not your piece!"
IllegalMove == "Invalid move!"
GameAlreadyOver == "GameAlreadyOver"

\* C4: a make_move made while the game is over fails with GameAlreadyOver.
C4_MakeMoveAfterGameOver ==
    [][(game_over /\ call'.op = "make_move") => call'.raised = GameAlreadyOver]_vars

\* C5: a roll made while the game is over fails with GameAlreadyOver and
\* leaves the stored dice value unchanged.
C5_RollAfterGameOver ==
    [][(game_over /\ call'.op = "roll_dice") =>
            call'.raised = GameAlreadyOver /\ dice_result' = dice_result]_vars

\* C6: a rejected make_move leaves the board and the controller unchanged,
\* and move_piece called with an illegal move (here: on the board make_move
\* was called on, for the piece it was given and every dice value) returns
\* the board it was given, and False.
C6_RejectedUnchanged ==
    [][call'.op = "make_move" =>
          /\ call'.raised # "" =>
                UNCHANGED <<squares, position, completed, pieces_in_hand,
                            current_player, dice_result, game_over, winner>>
          /\ \A steps \in DiceSums :
                ~IsValidMove(BoardNow, call'.piece, steps) =>
                    LET moved == MovePiece(BoardNow, call'.piece, steps)
                    IN  moved.board = BoardNow /\ moved.returned = FALSE]_vars

\* C6 witness: make_move has rejected a piece that is on the board, with a
\* dice value above 0.
C6_Witness ==
    /\ call.op = "make_move" /\ call.raised = IllegalMove
    /\ dice_result > 0
    /\ OnSquare(call.piece)
    /\ ~IsValidMove(BoardNow, call.piece, dice_result)

\* C7: while the game is in progress make_move succeeds iff the piece is the
\* current player's and is in get_valid_moves(); an opponent's piece gives
\* "Not your piece!" whatever the dice; an own piece outside get_valid_moves()
\* gives "Invalid move!", and so does every own piece while the dice are 0.
C7_MakeMoveOutcome ==
    [][(~game_over /\ call'.op = "make_move") =>
          LET piece == call'.piece
              mine == PlayerOf(piece) = current_player
              legal == piece \in GetValidMoves(BoardNow, current_player, dice_result)
          IN  /\ call'.raised = "" <=> (mine /\ legal)
              /\ ~mine => call'.raised = NotYourPiece
              /\ (mine /\ ~legal) => call'.raised = IllegalMove
              /\ (mine /\ dice_result = 0) => call'.raised = IllegalMove
              /\ call'.raised = "" =>
                    \/ position'[piece] # position[piece]
                    \/ completed'[piece] /\ ~completed[piece]]_vars

\* C7 witness: make_move has answered "Not your piece!" for a piece that its
\* owner could have moved with the dice as they are.
C7_Witness ==
    /\ call.op = "make_move" /\ call.raised = NotYourPiece
    /\ ~game_over
    /\ IsValidMove(BoardNow, call.piece, dice_result)

\* The target of a move as the specification defines it: index steps - 1 for
\* a piece in hand, current index + steps for a piece on a square.
TargetIndex(piece, steps) ==
    IF InHand(piece) THEN steps - 1
    ELSE PathIndex(GetPlayerPath(PlayerOf(piece)), position[piece]) + steps
HasTarget(piece, steps) ==
    /\ ~Completed(piece)
    /\ steps >= 1
    /\ TargetIndex(piece, steps) < Len(GetPlayerPath(PlayerOf(piece)))
TargetSquare(piece, steps) ==
    PathAt(GetPlayerPath(PlayerOf(piece)), TargetIndex(piece, steps))
MiddleRosette == <<1, 3>>

\* The index a piece moves from: -1 for a piece in hand
FromIndex(piece) ==
    IF InHand(piece) THEN -1
    ELSE PathIndex(GetPlayerPath(PlayerOf(piece)), position[piece])

\* C8: a move whose target is a shared non-rosette square held by an opponent
\* piece is legal, and executing it leaves the opponent piece in its owner's
\* hand with no position, the mover alone on the target and the source empty.
C8_Capture ==
    /\ \A piece \in Pieces : ~Completed(piece) =>
          LET path == GetPlayerPath(PlayerOf(piece))
              from == FromIndex(piece)
          IN  \A steps \in 1..MaxSteps : from + steps < Len(path) =>
                LET target == PathAt(path, from + steps)
                    opponent == squares[target]
                    source == position[piece]
                    after == MovePiece(BoardNow, piece, steps).board
                IN  (/\ opponent # None
                     /\ PlayerOf(opponent) # PlayerOf(piece)
                     /\ SquareFlags[target].is_shared
                     /\ ~SquareFlags[target].is_rosette)
                    =>
                    /\ IsValidMove(BoardNow, piece, steps)
                    /\ opponent \in after.pieces_in_hand[PlayerOf(opponent)]
                    /\ after.position[opponent] = None
                    /\ ~after.completed[opponent]
                    /\ \A pos \in SquarePositions : after.squares[pos] # opponent
                    /\ after.position[piece] = target
                    /\ \A pos \in SquarePositions :
                          after.squares[pos] = piece <=> pos = target
                    /\ source # None => after.squares[source] = None
    /\ (call.op = "make_move" /\ call.raised = "" /\ call.captured # None) =>
          /\ PlayerOf(call.captured) # PlayerOf(call.piece)
          /\ InHand(call.captured)
          /\ position[call.captured] = None
          /\ squares[position[call.piece]] = call.piece
          /\ SquareFlags[position[call.piece]].is_shared
          /\ ~SquareFlags[position[call.piece]].is_rosette

\* C8 witness: make_move has just captured a piece on a shared square that
\* is not the rosette.
C8_Witness ==
    /\ call.op = "make_move" /\ call.raised = ""
    /\ call.captured # None
    /\ InHand(call.captured)
    /\ OnSquare(call.piece)
    /\ SquareFlags[position[call.piece]].is_shared

\* C9: while an opponent piece is on the middle rosette (1,3), no move of
\* the other player to that square is legal, for a piece in hand or on the
\* board and any step count; and no make_move ever captures there.
C9_RosetteSafe ==
    /\ squares[MiddleRosette] # None =>
          \A piece \in PiecesOf(Other(PlayerOf(squares[MiddleRosette]))) :
              ~Completed(piece) =>
                  LET path == GetPlayerPath(PlayerOf(piece))
                      from == FromIndex(piece)
                  IN  \A steps \in 1..MaxSteps :
                          (/\ from + steps < Len(path)
                           /\ PathAt(path, from + steps) = MiddleRosette)
                          => ~IsValidMove(BoardNow, piece, steps)
    /\ (call.op = "make_move" /\ call.raised = "" /\ call.captured # None) =>
          position[call.piece] # MiddleRosette

\* C9 witness: make_move has rejected a move whose target is the middle
\* rosette while an opponent piece stands on it.
C9_Witness ==
    /\ call.op = "make_move" /\ call.raised = IllegalMove
    /\ HasTarget(call.piece, dice_result)
    /\ TargetSquare(call.piece, dice_result) = MiddleRosette
    /\ squares[MiddleRosette] # None
    /\ PlayerOf(squares[MiddleRosette]) # PlayerOf(call.piece)

\* C10: a non-scoring move is illegal when its target square holds a piece of
\* the mover's own player, on any row, and when its target square is a
\* private square holding any piece, for pieces in hand and on the board.
C10_BlockedTarget ==
    \A piece \in Pieces : ~Completed(piece) =>
        LET path == GetPlayerPath(PlayerOf(piece))
            from == FromIndex(piece)
        IN  \A steps \in 1..MaxSteps : from + steps < Len(path) =>
              LET target == PathAt(path, from + steps)
                  occupant == squares[target]
              IN  (/\ occupant # None
                   /\ \/ PlayerOf(occupant) = PlayerOf(piece)
                      \/ ~SquareFlags[target].is_shared)
                  => ~IsValidMove(BoardNow, piece, steps)

\* C10 witness: make_move has rejected a move of a piece on the board whose
\* target is a shared square held by a piece of the same player.
C10_Witness ==
    /\ call.op = "make_move" /\ call.raised = IllegalMove
    /\ OnSquare(call.piece)
    /\ HasTarget(call.piece, dice_result)
    /\ squares[TargetSquare(call.piece, dice_result)] # None
    /\ PlayerOf(squares[TargetSquare(call.piece, dice_result)]) = PlayerOf(call.piece)
    /\ SquareFlags[TargetSquare(call.piece, dice_result)].is_shared

\* C11: for a piece on a square at 0-based index i of its path, a move of s
\* steps with i + s > 14 is illegal and one with i + s = 14 is legal whatever
\* the board holds; executing the latter completes the piece, unsets its
\* position and empties the square it left.  A piece becomes completed only by
\* such a move.
C11_ExactScore ==
    [][/\ call'.op = "make_move" =>
            LET piece == call'.piece IN
            (OnSquare(piece) /\ ~Completed(piece)) =>
              LET i == FromIndex(piece) IN
              \A s \in 0..MaxSteps :
                /\ i + s > 14 => ~IsValidMove(BoardNow, piece, s)
                /\ i + s = 14 =>
                     /\ IsValidMove(BoardNow, piece, s)
                     /\ LET after == MovePiece(BoardNow, piece, s).board IN
                        /\ after.completed[piece]
                        /\ after.position[piece] = None
                        /\ after.squares[position[piece]] = None
                        /\ piece \notin after.pieces_in_hand[PlayerOf(piece)]
       /\ \A piece \in Pieces :
            (completed'[piece] /\ ~completed[piece]) =>
              /\ call'.op = "make_move" /\ call'.piece = piece /\ call'.raised = ""
              /\ OnSquare(piece)
              /\ FromIndex(piece) + dice_result = 14
              /\ position'[piece] = None
              /\ squares'[position[piece]] = None
      ]_vars

\* A scoring move has just been made.
C11_Witness ==
    /\ call.op = "make_move" /\ call.raised = ""
    /\ Completed(call.piece)
    /\ position[call.piece] = None

\* C12 as stated: a piece on 0-based index 12 of its owner's path can legally
\* move 3 steps, and that move completes it.
C12_Index12Roll3 ==
    \A piece \in Pieces :
        (OnSquare(piece) /\ FromIndex(piece) = 12) =>
            /\ IsValidMove(BoardNow, piece, 3)
            /\ MovePiece(BoardNow, piece, 3).board.completed[piece]

\* C12: a piece on 0-based index 11 of its owner's path (the last square of
\* the shared row, position 12 counting from 1) can legally move 3 steps, and
\* that move completes it.
C12_Index11Roll3 ==
    \A piece \in Pieces :
        (OnSquare(piece) /\ FromIndex(piece) = 11) =>
            /\ position[piece] = <<1, 7>>
            /\ IsValidMove(BoardNow, piece, 3)
            /\ MovePiece(BoardNow, piece, 3).board.completed[piece]

\* A piece has just scored with a roll of 3.
C12_Witness ==
    /\ call.op = "make_move" /\ call.raised = ""
    /\ Completed(call.piece)
    /\ dice_result = 3

\* C13: for a piece on the rosette of its owner's end row (0-based index 13)
\* a move of 2 is illegal and a move of 1 is legal, completes the piece and
\* returns bonus_turn = false; every move that scores returns false, from
\* move_piece and from make_move.
C13_ScoringNoBonus ==
    /\ \A piece \in Pieces : (OnSquare(piece) /\ ~Completed(piece)) =>
          LET i == FromIndex(piece) IN
          /\ i = 13 =>
               /\ SquareFlags[position[piece]].is_rosette
               /\ position[piece][1] # 1
               /\ ~IsValidMove(BoardNow, piece, 2)
               /\ IsValidMove(BoardNow, piece, 1)
               /\ MovePiece(BoardNow, piece, 1).board.completed[piece]
               /\ MovePiece(BoardNow, piece, 1).returned = FALSE
          /\ \A s \in 1..MaxSteps : i + s = 14 =>
               LET moved == MovePiece(BoardNow, piece, s) IN
               moved.board.completed[piece] /\ moved.returned = FALSE
    /\ (call.op = "make_move" /\ call.raised = "" /\ Completed(call.piece)) =>
          call.returned = BoolValue(FALSE)

\* A piece has just scored from the end-row rosette with a roll of 1.
C13_Witness ==
    /\ call.op = "make_move" /\ call.raised = ""
    /\ Completed(call.piece)
    /\ dice_result = 1
    /\ call.returned = BoolValue(FALSE)

\* C14: a legal move that does not score returns bonus_turn = true exactly
\* when the square the piece lands on is flagged rosette, whatever the square
\* it left: make_move returns that value for every such move it makes, and
\* move_piece returns it for every such move of a piece that stands on a
\* rosette.
C14_BonusIffRosette ==
    /\ (call.op = "make_move" /\ call.raised = "" /\ ~Completed(call.piece)) =>
          /\ OnSquare(call.piece)
          /\ call.returned = BoolValue(SquareFlags[position[call.piece]].is_rosette)
    /\ \A piece \in Pieces :
          (OnSquare(piece) /\ SquareFlags[position[piece]].is_rosette) =>
          LET path == GetPlayerPath(PlayerOf(piece))
              from == FromIndex(piece)
          IN  \A s \in 1..MaxSteps :
                (from + s < Len(path) /\ IsValidMove(BoardNow, piece, s)) =>
                  LET target == PathAt(path, from + s)
                      moved == MovePiece(BoardNow, piece, s)
                  IN  /\ moved.board.position[piece] = target
                      /\ moved.returned = SquareFlags[target].is_rosette

\* A piece has just moved one step off the middle rosette onto a plain
\* square, and no bonus turn was granted.
C14_Witness ==
    /\ call.op = "make_move" /\ call.raised = ""
    /\ dice_result = 1
    /\ position[call.piece] = <<1, 4>>
    /\ call.returned = BoolValue(FALSE)

\* C15: legal_moves() is exactly the set of the current player's pieces that
\* are not completed and for which is_legal(piece, dice) holds with the
\* stored dice value; it holds no opponent piece and no completed piece.
C15_LegalMoves ==
    LET moves == GetValidMoves(BoardNow, current_player, dice_result) IN
    /\ moves = {piece \in PiecesOf(current_player) :
                  /\ ~Completed(piece)
                  /\ InHand(piece) \/ OnSquare(piece)
                  /\ IsValidMove(BoardNow, piece, dice_result)}
    /\ \A piece \in moves :
          PlayerOf(piece) = current_player /\ ~Completed(piece)

\* legal_moves() holds a piece in hand and a piece on a square, and leaves
\* out an opponent piece that the stored dice value could move.
C15_Witness ==
    LET moves == GetValidMoves(BoardNow, current_player, dice_result) IN
    /\ \E piece \in moves : InHand(piece)
    /\ \E piece \in moves : OnSquare(piece)
    /\ \E piece \in PiecesOf(Other(current_player)) :
          IsValidMove(BoardNow, piece, dice_result) /\ piece \notin moves

\* C16: while the stored dice value is 0, legal_moves() is empty, is_legal
\* with 0 steps is false for every piece in hand, and no call changes where
\* any piece is.
C16_ZeroDice ==
    [][dice_result = 0 =>
         /\ GetValidMoves(BoardNow, current_player, dice_result) = {}
         /\ \A piece \in Pieces : InHand(piece) => ~IsValidMove(BoardNow, piece, 0)
         /\ UNCHANGED <<squares, position, completed, pieces_in_hand>>
      ]_vars

\* make_move was called with the dice at 0 while the caller had a piece in
\* hand and a piece stood on the board; it was rejected.
C16_Witness ==
    /\ dice_result = 0
    /\ call.op = "make_move" /\ call.raised = IllegalMove
    /\ InHand(call.piece)
    /\ \E piece \in Pieces : OnSquare(piece)

\* C17: a completed piece stays completed over every call; is_legal is false
\* for it with every step count, legal_moves() never holds it, and no call
\* gives it a position or puts it back in the hand.
C17_CompletedForever ==
    [][\A piece \in Pieces : Completed(piece) =>
         /\ \A s \in 0..MaxSteps : ~IsValidMove(BoardNow, piece, s)
         /\ \A d \in DiceSums :
               piece \notin GetValidMoves(BoardNow, PlayerOf(piece), d)
         /\ completed'[piece]
         /\ position'[piece] = None
         /\ piece \notin pieces_in_hand'[PlayerOf(piece)]
         /\ \A pos \in SquarePositions : squares'[pos] # piece
      ]_vars

\* make_move was called for a completed piece after a roll that was not 0,
\* and was rejected.
C17_Witness ==
    /\ call.op = "make_move" /\ call.raised = IllegalMove
    /\ Completed(call.piece)
    /\ dice_result > 0

\* C18: every occupied square of row 2 holds a piece of player one and every
\* occupied square of row 0 a piece of player two; no piece stands on the
\* start or end row of its opponent.
C18_PrivateRows ==
    /\ \A pos \in SquarePositions : squares[pos] # None =>
          /\ pos[1] = 2 => PlayerOf(squares[pos]) = PlayerONE
          /\ pos[1] = 0 => PlayerOf(squares[pos]) = PlayerTWO
    /\ \A piece \in Pieces : OnSquare(piece) =>
          position[piece][1] \in {1, IF PlayerOf(piece) = PlayerONE THEN 2 ELSE 0}

\* One piece stands on its owner's end row and another piece of the same
\* player on its start row.
C18_Witness ==
    \E piece, other \in Pieces :
        /\ PlayerOf(piece) = PlayerOf(other)
        /\ OnSquare(piece) /\ position[piece] \in p1_end \cup p2_end
        /\ OnSquare(other) /\ position[other] \in p1_start \cup p2_start

\* C19: next_turn changes nothing once the game is over; before that it hands
\* the turn to the other player and sets the dice value to 0.  Either way it
\* leaves every piece location, every square occupant, game_over and winner
\* as they were.
C19_NextTurn ==
    [][call'.op = "next_turn" =>
         /\ IF game_over
            THEN current_player' = current_player /\ dice_result' = dice_result
            ELSE current_player' = Other(current_player) /\ dice_result' = 0
         /\ squares' = squares
         /\ position' = position
         /\ completed' = completed
         /\ pieces_in_hand' = pieces_in_hand
         /\ game_over' = game_over
         /\ winner' = winner
      ]_vars

\* next_turn has been called after the game ended and left a dice value
\* that is not 0 in place.
C19_Witness ==
    /\ game_over
    /\ call.op = "next_turn"
    /\ dice_result # 0
    /\ current_player = winner

\* C20: roll_dice returns the sum of four draws from {0, 1}, a value in 0..4,
\* and stores it: afterwards the stored dice value is the value returned.  It
\* changes neither the board nor the current player, and the stored dice
\* value is in 0..4 in every state.
C20_RollDice ==
    [][/\ dice_result \in 0..4
       /\ dice_result' \in 0..4
       /\ call'.op = "roll_dice" =>
            /\ \E d1, d2, d3, d4 \in 0..1 :
                  call'.returned = IntValue(d1 + d2 + d3 + d4)
            /\ call'.returned = IntValue(dice_result')
            /\ squares' = squares
            /\ position' = position
            /\ completed' = completed
            /\ pieces_in_hand' = pieces_in_hand
            /\ current_player' = current_player
      ]_vars

\* roll_dice has just returned 4 with pieces of both players on the board.
C20_Witness ==
    /\ call.op = "roll_dice"
    /\ call.returned = IntValue(4)
    /\ dice_result = 4
    /\ \A player \in Players : \E piece \in PiecesOf(player) : OnSquare(piece)

\* The squares of a path, as a set
PathSquares(player) ==
    {GetPlayerPath(player)[k] : k \in 1..Len(GetPlayerPath(player))}

\* C21: each player's path is a sequence of 14 distinct squares; indices
\* 4..11 hold the same 8 middle-row squares in the same order on both paths;
\* the squares the two paths have in common are exactly those 8, and no
\* square of row 2 or row 0 is on the path of the player who does not own it.
\* Every piece on the board stands on a square of its owner's path.
C21_Paths ==
    /\ \A player \in Players :
          LET path == GetPlayerPath(player) IN
          /\ Len(path) = 14
          /\ \A j, k \in 1..Len(path) : path[j] = path[k] => j = k
          /\ \A i \in 4..11 : PathAt(path, i) = <<1, i - 4>>
          /\ \A i \in (0..3) \cup (12..13) :
                PathAt(path, i)[1] = (IF player = PlayerONE THEN 2 ELSE 0)
    /\ \A i \in 4..11 :
          PathAt(GetPlayerPath(PlayerONE), i) = PathAt(GetPlayerPath(PlayerTWO), i)
    /\ PathSquares(PlayerONE) \cap PathSquares(PlayerTWO) =
          {<<1, col>> : col \in 0..7}
    /\ \A piece \in Pieces : OnSquare(piece) =>
          position[piece] \in PathSquares(PlayerOf(piece))

\* A piece of player two has moved onto a middle-row square on which a piece
\* of player one stood: the square is on both paths.
C21_Witness ==
    /\ call.op = "make_move" /\ call.raised = ""
    /\ PlayerOf(call.piece) = PlayerTWO
    /\ call.captured # None
    /\ PlayerOf(call.captured) = PlayerONE
    /\ position[call.piece] \in PathSquares(PlayerONE) \cap PathSquares(PlayerTWO)

\* The squares flagged rosette
Rosettes == {pos \in DOMAIN SquareFlags : SquareFlags[pos].is_rosette}

\* C22: exactly 5 squares are flagged rosette, one in each start row, one in
\* the middle row and one in each end row; the end-row rosette is the first
\* square of the end row as the board lays it out (column 6), which is the
\* last square of the owner's path.  Every square of a path is a square of
\* the board and is flagged shared exactly when it is in the middle row.
C22_Rosettes ==
    /\ Cardinality(Rosettes) = 5
    /\ \A section \in {p1_start, p2_start, shared_path, p1_end, p2_end} :
          Cardinality(Rosettes \cap section) = 1
    /\ \A end \in {p1_end, p2_end} : \A pos \in Rosettes \cap end :
          \A other \in end : pos[2] <= other[2]
    /\ \A player \in Players :
          /\ PathAt(GetPlayerPath(player), 13) \in Rosettes
          /\ PathAt(GetPlayerPath(player), 12) \notin Rosettes
          /\ \A pos \in PathSquares(player) :
                /\ pos \in DOMAIN squares
                /\ pos \in DOMAIN SquareFlags
                /\ SquareFlags[pos].is_shared <=> (pos[1] = 1)
    /\ DOMAIN squares = DOMAIN SquareFlags

\* A piece has just landed on the rosette of its owner's end row and was
\* granted a bonus turn.
C22_Witness ==
    /\ call.op = "make_move" /\ call.raised = ""
    /\ call.returned = BoolValue(TRUE)
    /\ OnSquare(call.piece)
    /\ position[call.piece] \in p1_end \cup p2_end

\* C23: a successful move that does not score puts the piece on the square of
\* its owner's path at index steps - 1 when it was in hand and at index
\* i + steps when it stood at index i; one step from the last shared square
\* (1,7) lands on (2,7) for player one and on (0,7) for player two.
C23_LandingSquare ==
    [][call'.op = "make_move" =>
         LET piece == call'.piece
             path == GetPlayerPath(PlayerOf(piece))
         IN  /\ (call'.raised = "" /\ ~completed'[piece]) =>
                  position'[piece] =
                      IF InHand(piece)
                      THEN PathAt(path, dice_result - 1)
                      ELSE PathAt(path, PathIndex(path, position[piece]) + dice_result)
             /\ (position[piece] = <<1, 7>> /\ IsValidMove(BoardNow, piece, 1)) =>
                  MovePiece(BoardNow, piece, 1).board.position[piece] =
                      IF PlayerOf(piece) = PlayerONE THEN <<2, 7>> ELSE <<0, 7>>
      ]_vars

\* A piece of player two has just moved one step and stands on (0,7).
C23_Witness ==
    /\ call.op = "make_move" /\ call.raised = ""
    /\ PlayerOf(call.piece) = PlayerTWO
    /\ dice_result = 1
    /\ position[call.piece] = <<0, 7>>

\* C24: a new game is in progress with player one to move, the dice value 0
\* and no winner; every piece of both players is in hand, has no position
\* and is not completed, and every square is empty.
C24_NewGame ==
    call.op = "new_game" =>
        /\ ~game_over
        /\ current_player = PlayerONE
        /\ dice_result = 0
        /\ winner = NoPlayer
        /\ \A player \in Players :
              /\ pieces_in_hand[player] = PiecesOf(player)
              /\ Cardinality(pieces_in_hand[player]) = NumPieces
        /\ \A piece \in Pieces : position[piece] = None /\ ~completed[piece]
        /\ \A pos \in SquarePositions : squares[pos] = None

\* The game has just been created.
C24_Witness ==
    /\ call.op = "new_game"
    /\ calls = 0
    /\ \A piece \in Pieces : InHand(piece)

\* C25: at the start of every turn, the first turn of the game, a turn begun
\* by next_turn and a bonus turn begun by a make_move that returned true, the
\* stored dice value is 0.
C25_DiceZeroAtTurnStart ==
    (\/ call.op = "new_game"
     \/ call.op = "next_turn" /\ ~game_over
     \/ call.op = "make_move" /\ call.raised = "" /\ call.returned = BoolValue(TRUE))
    => dice_result = 0

\* C26: between two successful make_move calls there is at least one
\* roll_dice call; in particular a successful make_move is never followed
\* directly by another successful make_move.
C26_RollBeforeEveryMove ==
    [][(call.op = "make_move" /\ call.raised = "") =>
         ~(call'.op = "make_move" /\ call'.raised = "")
      ]_vars

\* C27: once the game is over no call changes a piece location, a square
\* occupant, a hand, the current player, game_over or the winner.
C27_FrozenAfterGameOver ==
    [][game_over =>
         /\ squares' = squares
         /\ position' = position
         /\ completed' = completed
         /\ pieces_in_hand' = pieces_in_hand
         /\ current_player' = current_player
         /\ game_over' = game_over
         /\ winner' = winner
      ]_vars

\* After the game ended the dice were rolled and make_move was called for a
\* piece of the loser that the board would let move; the call was rejected.
C27_Witness ==
    /\ game_over
    /\ call.op = "make_move" /\ call.raised # ""
    /\ PlayerOf(call.piece) # winner
    /\ IsValidMove(BoardNow, call.piece, dice_result)

\* C28: a successful make_move changes the location of the piece it moves
\* and, when the target square was occupied, of exactly one more piece, which
\* belongs to the opponent; the location of every other piece, the occupant
\* of every square other than the source and the target, the current player
\* and the dice value stay as they were.
C28_MakeMoveFrame ==
    [][(call'.op = "make_move" /\ call'.raised = "") =>
         LET piece == call'.piece
             source == position[piece]
             target == position'[piece]
             moved == {q \in Pieces :
                          \/ position'[q] # position[q]
                          \/ completed'[q] # completed[q]
                          \/ (q \in pieces_in_hand'[PlayerOf(q)])
                               # (q \in pieces_in_hand[PlayerOf(q)])}
             landed_on == IF target = None THEN None ELSE squares[target]
         IN  /\ piece \in moved
             /\ IF landed_on = None
                THEN moved = {piece}
                ELSE /\ moved = {piece, landed_on}
                     /\ PlayerOf(landed_on) # PlayerOf(piece)
             /\ \A pos \in SquarePositions \ {source, target} :
                   squares'[pos] = squares[pos]
             /\ current_player' = current_player
             /\ dice_result' = dice_result
      ]_vars

\* A move has just sent an opponent piece back to hand while a third piece
\* stood on the board.
C28_Witness ==
    /\ call.op = "make_move" /\ call.raised = ""
    /\ call.captured # None
    /\ \E q \in Pieces \ {call.piece, call.captured} : OnSquare(q)

\* C29: a piece goes from a square back to the hand only when a successful
\* move of the opponent lands on the square it stands on, and that square is
\* a shared square that is not a rosette; a piece on the shared rosette or on
\* a private square is never sent back, and no move sends back a piece of
\* the player who makes it.
C29_BackToHand ==
    [][\A q \in Pieces :
         (OnSquare(q) /\ q \in pieces_in_hand'[PlayerOf(q)]) =>
            /\ call'.op = "make_move" /\ call'.raised = ""
            /\ PlayerOf(call'.piece) # PlayerOf(q)
            /\ PlayerOf(call'.piece) = current_player
            /\ position'[call'.piece] = position[q]
            /\ position[q][1] = 1
            /\ position[q] # MiddleRosette
            /\ SquareFlags[position[q]].is_shared
            /\ ~SquareFlags[position[q]].is_rosette
      ]_vars

\* A piece of player one has just landed on a piece of player two, which is
\* back in hand.
C29_Witness ==
    /\ call.op = "make_move" /\ call.raised = ""
    /\ PlayerOf(call.piece) = PlayerONE
    /\ call.captured # None
    /\ PlayerOf(call.captured) = PlayerTWO
    /\ InHand(call.captured)

\* C30: every driver, the text game, the game against the agent with and
\* without output and the HTTP move endpoint, calls next_turn after a
\* successful make_move exactly when make_move returned no bonus turn, and
\* leaves the turn with the same player when it returned one.
C30_DriversAdvanceTurn ==
    (call.op \in {"main", "run_game_with_ai", "move"}
       /\ call.piece # None /\ call.raised = "") =>
        /\ call.next_turn <=> (call.returned = BoolValue(FALSE))
        /\ call.returned = BoolValue(TRUE) => current_player = PlayerOf(call.piece)

\* C31: in every driver, the HTTP API included, when the roll is 0 or gives
\* the current player no legal move, the driver passes the turn to the
\* opponent (it calls next_turn, which leaves the dice at 0) and no piece is
\* moved.
C31_NoMovePassesTurn ==
    (call.op \in {"main", "run_game_with_ai", "roll"}
       /\ call.raised = "" /\ call.rolled # None /\ call.piece = None
       /\ GetValidMoves(BoardNow, current_player, dice_result) = {}) =>
        /\ call.next_turn
        /\ dice_result = 0

\* C32: in every in-progress state some dice value in 1..4 gives the current
\* player a legal move, so no position blocks a player for every roll.
C32_AlwaysSomeMove ==
    ~game_over =>
        \E dice \in 1..4 : GetValidMoves(BoardNow, current_player, dice) # {}

\* the game is under way and some roll in 1..4 leaves the current player
\* without a move, while another roll gives one
C32_Witness ==
    /\ ~game_over
    /\ calls > 0
    /\ \E piece \in PiecesOf(current_player) : OnSquare(piece)
    /\ \E dice \in 1..4 : GetValidMoves(BoardNow, current_player, dice) = {}
    /\ \E dice \in 1..4 : GetValidMoves(BoardNow, current_player, dice) # {}

\* The logical position of a piece, given the board's fields: -1 in hand,
\* the length of the path once completed, the path index on a square
LogicalIndex(pos, hand, done, piece) ==
    IF piece \in hand[PlayerOf(piece)] THEN -1
    ELSE IF done[piece] THEN Len(GetPlayerPath(PlayerOf(piece)))
    ELSE PathIndex(GetPlayerPath(PlayerOf(piece)), pos[piece])
CompletedCount(done, player) ==
    Cardinality({piece \in PiecesOf(player) : done[piece]})

\* C33: every successful make_move advances the moved piece by the dice
\* value, at least 1 and at most 4 logical positions (a piece in hand starts
\* before index 0); in every step a piece on a square keeps or raises its
\* logical index unless it is captured, and no player's completed count falls.
C33_Advance ==
    [][/\ (call'.op = "make_move" /\ call'.raised = "") =>
            LET piece == call'.piece
                advance == LogicalIndex(position', pieces_in_hand', completed', piece)
                             - LogicalIndex(position, pieces_in_hand, completed, piece)
            IN  /\ advance >= 1 /\ advance <= 4
                /\ advance = dice_result
       /\ \A piece \in Pieces : OnSquare(piece) =>
              \/ LogicalIndex(position', pieces_in_hand', completed', piece)
                   >= LogicalIndex(position, pieces_in_hand, completed, piece)
              \/ /\ call'.op = "make_move" /\ call'.captured = piece
                 /\ piece \in pieces_in_hand'[PlayerOf(piece)]
       /\ \A player \in Players :
              CompletedCount(completed', player) >= CompletedCount(completed, player)
      ]_vars

\* a make_move has advanced a piece along the board and captured an
\* opponent piece, whose logical index fell back to that of a piece in hand
C33_Witness ==
    /\ call.op = "make_move" /\ call.raised = ""
    /\ dice_result \in 1..4
    /\ LogicalIndex(position, pieces_in_hand, completed, call.piece) >= 4
    /\ call.captured # None
    /\ LogicalIndex(position, pieces_in_hand, completed, call.captured) = -1

\* C34: for a piece in hand, is_valid_move returns False, as a value and
\* without raising, for every step count whose entry index steps - 1 is 14
\* (the length of the path) or more.
C34_BeyondPathFalse ==
    \A piece \in Pieces : InHand(piece) =>
        LET len == Len(GetPlayerPath(PlayerOf(piece))) IN
        \A steps \in (len + 1)..(len + MaxSteps) :
            IsValidMoveCall(BoardNow, piece, steps)
                = [raised |-> "", returned |-> BoolValue(FALSE)]

\* C35: a roll or move request of the HTTP API on a game that is over is
\* answered with status 400 and "Game is over" and leaves the board and the
\* game's fields, the dice value included, as they were; a move request in
\* the name of a player who is not the current player is never carried out,
\* and its refusal ("Not your turn", status 400) changes nothing either.
C35_HttpRefusals ==
    [][/\ (call.driver = "http" /\ game_over) =>
            /\ call'.op \in {"roll", "move"}
            /\ call'.status = 400
            /\ call'.raised = "Game is over"
            /\ UNCHANGED <<boardVars, gameVars>>
       /\ (call.driver = "http" /\ call'.op = "move" /\ call'.status = 200) =>
            PlayerOf(call'.piece) = current_player
       /\ (call.driver = "http" /\ call'.raised = "Not your turn") =>
            /\ call'.op = "move"
            /\ call'.status = 400
            /\ UNCHANGED <<boardVars, gameVars>>
      ]_vars

\* the roll endpoint has refused a request on a finished game whose dice
\* still show the value of the winning move
C35_Witness ==
    /\ call.driver = "http"
    /\ call.op = "roll" /\ call.status = 400 /\ call.raised = "Game is over"
    /\ game_over /\ winner # NoPlayer
    /\ dice_result \in 1..4

====
